---- MODULE Spec2Model ----
(***************************************************************************)
(* backend/app/settings.py: init_settings and the five provider            *)
(* initializers, as a state machine over the process environment           *)
(* (os.environ) and the process-wide llama_index Settings object.          *)
(*                                                                         *)
(* One action per statement group that writes Settings, so that the order  *)
(* of the writes and the state an exception leaves behind are visible.     *)
(* The vendor SDK constructors (OpenAI, Ollama, Anthropic, ...) are not    *)
(* code of this file; a constructed client is the record of the keyword    *)
(* arguments it was given.                                                 *)
(***************************************************************************)
EXTENDS Integers, Sequences, FiniteSets, TLC

\* ---------------------------------------------------------------- bounds
\* Number of os.environ modifications (set or unset) in one behaviour.
MaxEnvChanges == 2
\* Number of init_settings calls in one behaviour.
MaxCalls == 2

\* ------------------------------------------------------------ environment
\* Python values are records whose field name is the value's type, so that
\* values of different types are comparable (and different).
None == [none |-> TRUE]
Str(s) == [str |-> s]
IntV(n) == [int |-> n]
FloatV(m, sc) == [float |-> [mantissa |-> m, scale |-> sc]]

Keys ==
    { "MODEL_PROVIDER", "MODEL", "EMBEDDING_MODEL", "EMBEDDING_DIM",
      "CHUNK_SIZE", "CHUNK_OVERLAP", "LLM_TEMPERATURE", "LLM_MAX_TOKENS",
      "OLLAMA_BASE_URL", "OLLAMA_REQUEST_TIMEOUT",
      "AZURE_DEPLOYMENT_NAME", "AZURE_OPENAI_ENDPOINT" }

\* The values a key is given in the model: for each key, values that take
\* every branch of the code that reads it.
Values(k) ==
    CASE k = "MODEL_PROVIDER" ->
            { "openai", "ollama", "anthropic", "gemini", "azure-openai", "mistral" }
      [] k = "MODEL" -> { "claude-3-haiku", "gemini-pro", "gpt-5" }
      [] k = "EMBEDDING_MODEL" -> { "all-MiniLM-L6-v2", "embedding-001" }
      [] k = "EMBEDDING_DIM" -> { "1536", "abc" }
      [] k = "CHUNK_SIZE" -> { "512", "abc" }
      [] k = "CHUNK_OVERLAP" -> { "50", "abc" }
      [] k = "LLM_TEMPERATURE" -> { "0.5", "abc" }
      [] k = "LLM_MAX_TOKENS" -> { "256", "abc" }
      [] k = "OLLAMA_BASE_URL" -> { "", "http://ollama:11434" }
      [] k = "OLLAMA_REQUEST_TIMEOUT" -> { "60", "abc" }
      [] k = "AZURE_DEPLOYMENT_NAME" -> { "gpt-4o" }
      [] k = "AZURE_OPENAI_ENDPOINT" -> { "https://example.openai.azure.com" }

\* os.environ: each key is not set (None) or set to a string.
NoEnv == [k \in Keys |-> None]

\* load_dotenv(dotenv_path='app/.env'), at import: the environment the
\* process starts with. Three .env files: an empty one, one that selects
\* anthropic and one that selects gemini, each with models of its two maps.
DotEnvs ==
    { NoEnv,
      [NoEnv EXCEPT !["MODEL_PROVIDER"] = Str("anthropic"),
                    !["MODEL"] = Str("claude-3-haiku"),
                    !["EMBEDDING_MODEL"] = Str("all-MiniLM-L6-v2")],
      [NoEnv EXCEPT !["MODEL_PROVIDER"] = Str("gemini"),
                    !["MODEL"] = Str("gemini-pro"),
                    !["EMBEDDING_MODEL"] = Str("embedding-001")] }

\* os.getenv(key): the value, or None when the key is not set.
getenv(e, k) == e[k]

\* os.getenv(key, default)
getenv_default(e, k, default) == IF e[k] = None THEN default ELSE e[k]

\* ------------------------------------------------------- int() and float()
\* The characters of the strings int() and float() are applied to.
Chars(s) ==
    CASE s = "512" -> << "5", "1", "2" >>
      [] s = "50" -> << "5", "0" >>
      [] s = "256" -> << "2", "5", "6" >>
      [] s = "1536" -> << "1", "5", "3", "6" >>
      [] s = "60" -> << "6", "0" >>
      [] s = "1024" -> << "1", "0", "2", "4" >>
      [] s = "20" -> << "2", "0" >>
      [] s = "0.5" -> << "0", ".", "5" >>
      [] s = "abc" -> << "a", "b", "c" >>
      [] s = "" -> << >>

Digits == { "0", "1", "2", "3", "4", "5", "6", "7", "8", "9" }

DigitVal(c) ==
    CASE c = "0" -> 0 [] c = "1" -> 1 [] c = "2" -> 2 [] c = "3" -> 3
      [] c = "4" -> 4 [] c = "5" -> 5 [] c = "6" -> 6 [] c = "7" -> 7
      [] c = "8" -> 8 [] c = "9" -> 9

AllDigits(cs) == \A i \in 1..Len(cs) : cs[i] \in Digits

RECURSIVE DecValue(_)
DecValue(cs) ==
    IF cs = << >> THEN 0
    ELSE 10 * DecValue(SubSeq(cs, 1, Len(cs) - 1)) + DigitVal(cs[Len(cs)])

\* int(s) for a string s: a non-empty run of decimal digits is its value;
\* anything else raises ValueError.
PyInt(v) ==
    LET cs == Chars(v.str) IN
    IF cs # << >> /\ AllDigits(cs)
    THEN [ok |-> TRUE, val |-> IntV(DecValue(cs))]
    ELSE [ok |-> FALSE, val |-> None]

\* float(v): a float is returned as it is; a string of digits with at most
\* one decimal point and a digit on at least one side of it is
\* mantissa * 10^-scale; any other string raises ValueError.
PyFloat(v) ==
    IF "str" \notin DOMAIN v THEN [ok |-> TRUE, val |-> v] ELSE
    LET cs == Chars(v.str)
        dots == { i \in 1..Len(cs) : cs[i] = "." }
        nodot == SelectSeq(cs, LAMBDA c : c # ".")
    IN  IF Cardinality(dots) <= 1 /\ nodot # << >> /\ AllDigits(nodot)
        THEN [ok |-> TRUE,
              val |-> FloatV(DecValue(nodot),
                             IF dots = {} THEN 0
                             ELSE Len(cs) - (CHOOSE i \in dots : TRUE))]
        ELSE [ok |-> FALSE, val |-> None]

\* ------------------------------------------------------------ SDK objects
\* Imported constants: floats whose values the SDKs define.
DEFAULT_REQUEST_TIMEOUT == [float_const |-> "DEFAULT_REQUEST_TIMEOUT"]
DEFAULT_TEMPERATURE == [float_const |-> "DEFAULT_TEMPERATURE"]

\* get_bearer_token_provider(DefaultAzureCredential(), <audience>)
token_provider ==
    [bearer |-> "https://cognitiveservices.azure.com/.default"]

\* A client object: its class and the keyword arguments it was built with.
Client(cls, kwargs) == [cls |-> cls, kwargs |-> kwargs]

\* Mutant: the haiku entry carries the date of the entries above it.
anthropic_model_map_stale(k) ==
    CASE k = Str("claude-3-opus") -> [ok |-> TRUE, val |-> Str("claude-3-opus-20240229")]
      [] k = Str("claude-3-sonnet") -> [ok |-> TRUE, val |-> Str("claude-3-sonnet-20240229")]
      [] k = Str("claude-3-haiku") -> [ok |-> TRUE, val |-> Str("claude-3-haiku-20240229")]
      [] k = Str("claude-2.1") -> [ok |-> TRUE, val |-> Str("claude-2.1")]
      [] k = Str("claude-instant-1.2") -> [ok |-> TRUE, val |-> Str("claude-instant-1.2")]
      [] OTHER -> [ok |-> FALSE, val |-> None]

\* The ModelNameMaps of init_anthropic and init_gemini: short identifier to
\* fully-qualified identifier. map[key] raises KeyError for any other key,
\* None (MODEL not set) included.
anthropic_model_map(k) ==
    CASE k = Str("claude-3-opus") -> [ok |-> TRUE, val |-> Str("claude-3-opus-20240229")]
      [] k = Str("claude-3-sonnet") -> [ok |-> TRUE, val |-> Str("claude-3-sonnet-20240229")]
      [] k = Str("claude-3-haiku") -> [ok |-> TRUE, val |-> Str("claude-3-haiku-20240307")]
      [] k = Str("claude-2.1") -> [ok |-> TRUE, val |-> Str("claude-2.1")]
      [] k = Str("claude-instant-1.2") -> [ok |-> TRUE, val |-> Str("claude-instant-1.2")]
      [] OTHER -> [ok |-> FALSE, val |-> None]

anthropic_embed_model_map(k) ==
    CASE k = Str("all-MiniLM-L6-v2") ->
            [ok |-> TRUE, val |-> Str("sentence-transformers/all-MiniLM-L6-v2")]
      [] k = Str("all-mpnet-base-v2") ->
            [ok |-> TRUE, val |-> Str("sentence-transformers/all-mpnet-base-v2")]
      [] OTHER -> [ok |-> FALSE, val |-> None]

gemini_model_map(k) ==
    CASE k = Str("gemini-1.5-pro-latest") ->
            [ok |-> TRUE, val |-> Str("models/gemini-1.5-pro-latest")]
      [] k = Str("gemini-pro") -> [ok |-> TRUE, val |-> Str("models/gemini-pro")]
      [] k = Str("gemini-pro-vision") -> [ok |-> TRUE, val |-> Str("models/gemini-pro-vision")]
      [] OTHER -> [ok |-> FALSE, val |-> None]

gemini_embed_model_map(k) ==
    CASE k = Str("embedding-001") -> [ok |-> TRUE, val |-> Str("models/embedding-001")]
      [] k = Str("text-embedding-004") ->
            [ok |-> TRUE, val |-> Str("models/text-embedding-004")]
      [] OTHER -> [ok |-> FALSE, val |-> None]

\* ------------------------------------------------------------------ state
VARIABLES
    env,             \* os.environ
    changes,         \* number of modifications of os.environ so far
    Settings,        \* llama_index.core.settings.Settings: the four fields
    pc,              \* where the running init_settings call is
    model_provider,  \* init_settings' local variable
    exc,             \* the exception the latest call raised, NoException if none
    calls,           \* number of init_settings calls started
    pre,             \* Settings as the running or latest call found it
    written,         \* Settings fields the running or latest call wrote, in order
    prev             \* the call before it: its provider, and whether it returned

vars == << env, changes, Settings, pc, model_provider, exc, calls, pre, written, prev >>

NoException == [type |-> "NoException", raised_in |-> "", about |-> ""]
Exception(type, fn, about) == [type |-> type, raised_in |-> fn, about |-> about]

\* No call is running: none was made yet, the latest returned, or it raised.
AtRest == pc \in { "idle", "done", "raised" }

Init ==
    /\ env \in DotEnvs
    /\ changes = 0
    /\ Settings = [llm |-> None, embed_model |-> None,
                   chunk_size |-> None, chunk_overlap |-> None]
    /\ pc = "idle"
    /\ model_provider = None
    /\ exc = NoException
    /\ calls = 0
    /\ pre = Settings
    /\ written = << >>
    /\ prev = [provider |-> None, returned |-> FALSE]

\* --------------------------------------------------- the environment moves
\* Between calls the process environment is edited: a key is set ...
putenv(k, v) ==
    /\ AtRest
    /\ changes < MaxEnvChanges
    /\ env[k] # Str(v)
    /\ env' = [env EXCEPT ![k] = Str(v)]
    /\ changes' = changes + 1
    /\ pc' = "idle"
    /\ UNCHANGED << Settings, model_provider, exc, calls, pre, written, prev >>

\* ... or removed.
unsetenv(k) ==
    /\ AtRest
    /\ changes < MaxEnvChanges
    /\ env[k] # None
    /\ env' = [env EXCEPT ![k] = None]
    /\ changes' = changes + 1
    /\ pc' = "idle"
    /\ UNCHANGED << Settings, model_provider, exc, calls, pre, written, prev >>

\* ------------------------------------------------------------ the program
\* raise: the call ends here; Settings keeps what was written so far.
Raise(e) ==
    /\ exc' = e
    /\ pc' = "raised"
    /\ UNCHANGED << Settings, written >>

\* Mutant: a field that is already set is kept (merge instead of overwrite).
Write_keep_existing(field, value, next) ==
    /\ Settings' = IF Settings[field] # None THEN Settings
                   ELSE [Settings EXCEPT ![field] = value]
    /\ written' = Append(written, field)
    /\ pc' = next
    /\ UNCHANGED exc

\* Settings.<field> = value, then on to the next statement.
Write(field, value, next) ==
    /\ Settings' = [Settings EXCEPT ![field] = value]
    /\ written' = Append(written, field)
    /\ pc' = next
    /\ UNCHANGED exc

\* Mutant: an unrecognized provider is treated as openai.
Dispatch_default_openai(p) ==
    CASE p = Str("ollama") -> "init_ollama"
      [] p = Str("anthropic") -> "init_anthropic"
      [] p = Str("gemini") -> "init_gemini"
      [] p = Str("azure-openai") -> "init_azure_openai"
      [] OTHER -> "init_openai"

\* Mutant: the default case does not raise, the match statement falls
\* through to the chunk parameters.
Dispatch_fallthrough(p) ==
    CASE p = Str("openai") -> "init_openai"
      [] p = Str("ollama") -> "init_ollama"
      [] p = Str("anthropic") -> "init_anthropic"
      [] p = Str("gemini") -> "init_gemini"
      [] p = Str("azure-openai") -> "init_azure_openai"
      [] OTHER -> "chunk_size"

\* The first statement of the initializer the match statement selects.
Dispatch(p) ==
    CASE p = Str("openai") -> "init_openai"
      [] p = Str("ollama") -> "init_ollama"
      [] p = Str("anthropic") -> "init_anthropic"
      [] p = Str("gemini") -> "init_gemini"
      [] p = Str("azure-openai") -> "init_azure_openai"
      [] OTHER -> "raise"

\* Mutant: the call clears Settings before it dispatches.
init_settings_reset ==
    /\ AtRest
    /\ calls < MaxCalls
    /\ calls' = calls + 1
    /\ prev' = [provider |-> model_provider, returned |-> calls > 0 /\ exc = NoException]
    /\ pre' = Settings
    /\ written' = << >>
    /\ model_provider' = getenv(env, "MODEL_PROVIDER")
    /\ Settings' = [llm |-> None, embed_model |-> None,
                    chunk_size |-> None, chunk_overlap |-> None]
    /\ LET target == Dispatch(model_provider') IN
       IF target = "raise"
       THEN /\ exc' = Exception("ValueError", "init_settings", "MODEL_PROVIDER")
            /\ pc' = "raised"
       ELSE /\ exc' = NoException
            /\ pc' = target
    /\ UNCHANGED << env, changes >>

\* init_settings, up to and including the match statement.
init_settings ==
    /\ AtRest
    /\ calls < MaxCalls
    /\ calls' = calls + 1
    /\ prev' = [provider |-> model_provider, returned |-> calls > 0 /\ exc = NoException]
    /\ pre' = Settings
    /\ written' = << >>
    /\ model_provider' = getenv(env, "MODEL_PROVIDER")
    /\ LET target == Dispatch(model_provider') IN
       IF target = "raise"
       THEN /\ exc' = Exception("ValueError", "init_settings", "MODEL_PROVIDER")
            /\ pc' = "raised"
       ELSE /\ exc' = NoException
            /\ pc' = target
    /\ UNCHANGED << env, changes, Settings >>

\* init_ollama: base_url, request_timeout, Settings.embed_model.
init_ollama_embed ==
    /\ pc = "init_ollama"
    /\ LET url == getenv(env, "OLLAMA_BASE_URL")
           base_url == IF url = None \/ url = Str("")
                       THEN Str("http://127.0.0.1:11434") ELSE url
           request_timeout ==
               PyFloat(getenv_default(env, "OLLAMA_REQUEST_TIMEOUT",
                                      DEFAULT_REQUEST_TIMEOUT))
       IN  IF ~request_timeout.ok
           THEN Raise(Exception("ValueError", "init_ollama", "OLLAMA_REQUEST_TIMEOUT"))
           ELSE Write("embed_model",
                      Client("OllamaEmbedding",
                             [base_url |-> base_url,
                              model_name |-> getenv(env, "EMBEDDING_MODEL")]),
                      "init_ollama_llm")
    /\ UNCHANGED << env, changes, model_provider, calls, pre, prev >>

\* Mutant: the generation client gets OLLAMA_BASE_URL without the default.
init_ollama_llm_raw_url ==
    /\ pc = "init_ollama_llm"
    /\ LET request_timeout ==
               PyFloat(getenv_default(env, "OLLAMA_REQUEST_TIMEOUT",
                                      DEFAULT_REQUEST_TIMEOUT))
       IN  Write("llm",
                 Client("Ollama",
                        [base_url |-> getenv(env, "OLLAMA_BASE_URL"),
                         model |-> getenv(env, "MODEL"),
                         request_timeout |-> request_timeout.val]),
                 "chunk_size")
    /\ UNCHANGED << env, changes, model_provider, calls, pre, prev >>

\* init_ollama: Settings.llm.
init_ollama_llm ==
    /\ pc = "init_ollama_llm"
    /\ LET url == getenv(env, "OLLAMA_BASE_URL")
           base_url == IF url = None \/ url = Str("")
                       THEN Str("http://127.0.0.1:11434") ELSE url
           request_timeout ==
               PyFloat(getenv_default(env, "OLLAMA_REQUEST_TIMEOUT",
                                      DEFAULT_REQUEST_TIMEOUT))
       IN  Write("llm",
                 Client("Ollama",
                        [base_url |-> base_url,
                         model |-> getenv(env, "MODEL"),
                         request_timeout |-> request_timeout.val]),
                 "chunk_size")
    /\ UNCHANGED << env, changes, model_provider, calls, pre, prev >>

\* Mutant: a value int() rejects is dropped instead of raising.
OptionalInt_silent_default(x) ==
    IF x # None /\ PyInt(x).ok THEN PyInt(x) ELSE [ok |-> TRUE, val |-> None]

\* int(x) if x is not None else None
OptionalInt(x) == IF x # None THEN PyInt(x) ELSE [ok |-> TRUE, val |-> None]

\* init_openai: the generation client's config, Settings.llm.
init_openai_llm ==
    /\ pc = "init_openai"
    /\ LET temperature ==
               PyFloat(getenv_default(env, "LLM_TEMPERATURE", DEFAULT_TEMPERATURE))
           max_tokens == OptionalInt(getenv(env, "LLM_MAX_TOKENS"))
       IN  IF ~temperature.ok
           THEN Raise(Exception("ValueError", "init_openai", "LLM_TEMPERATURE"))
           ELSE IF ~max_tokens.ok
           THEN Raise(Exception("ValueError", "init_openai", "LLM_MAX_TOKENS"))
           ELSE Write("llm",
                      Client("OpenAI",
                             [model |-> getenv(env, "MODEL"),
                              temperature |-> temperature.val,
                              max_tokens |-> max_tokens.val]),
                      "init_openai_embed")
    /\ UNCHANGED << env, changes, model_provider, calls, pre, prev >>

\* Mutant: the embedding client is assigned to Settings.llm.
init_openai_embed_to_llm ==
    /\ pc = "init_openai_embed"
    /\ LET dimensions == OptionalInt(getenv(env, "EMBEDDING_DIM"))
       IN  IF ~dimensions.ok
           THEN Raise(Exception("ValueError", "init_openai", "EMBEDDING_DIM"))
           ELSE Write("llm",
                      Client("OpenAIEmbedding",
                             [model |-> getenv(env, "EMBEDDING_MODEL"),
                              dimensions |-> dimensions.val]),
                      "chunk_size")
    /\ UNCHANGED << env, changes, model_provider, calls, pre, prev >>

\* init_openai: the embedding client's config, Settings.embed_model.
init_openai_embed ==
    /\ pc = "init_openai_embed"
    /\ LET dimensions == OptionalInt(getenv(env, "EMBEDDING_DIM"))
       IN  IF ~dimensions.ok
           THEN Raise(Exception("ValueError", "init_openai", "EMBEDDING_DIM"))
           ELSE Write("embed_model",
                      Client("OpenAIEmbedding",
                             [model |-> getenv(env, "EMBEDDING_MODEL"),
                              dimensions |-> dimensions.val]),
                      "chunk_size")
    /\ UNCHANGED << env, changes, model_provider, calls, pre, prev >>

\* init_azure_openai: credential, llm_config, Settings.llm.
init_azure_openai_llm ==
    /\ pc = "init_azure_openai"
    /\ LET temperature ==
               PyFloat(getenv_default(env, "LLM_TEMPERATURE", DEFAULT_TEMPERATURE))
           max_tokens == OptionalInt(getenv(env, "LLM_MAX_TOKENS"))
       IN  IF ~temperature.ok
           THEN Raise(Exception("ValueError", "init_azure_openai", "LLM_TEMPERATURE"))
           ELSE IF ~max_tokens.ok
           THEN Raise(Exception("ValueError", "init_azure_openai", "LLM_MAX_TOKENS"))
           ELSE Write("llm",
                      Client("AzureOpenAI",
                             [engine |-> getenv(env, "AZURE_DEPLOYMENT_NAME"),
                              azure_endpoint |-> getenv(env, "AZURE_OPENAI_ENDPOINT"),
                              azure_ad_token_provider |-> token_provider,
                              use_azure_ad |-> TRUE,
                              temperature |-> temperature.val,
                              max_tokens |-> max_tokens.val]),
                      "init_azure_openai_embed")
    /\ UNCHANGED << env, changes, model_provider, calls, pre, prev >>

\* init_azure_openai: embedding_config, Settings.embed_model.
init_azure_openai_embed ==
    /\ pc = "init_azure_openai_embed"
    /\ LET dimensions == OptionalInt(getenv(env, "EMBEDDING_DIM"))
       IN  IF ~dimensions.ok
           THEN Raise(Exception("ValueError", "init_azure_openai", "EMBEDDING_DIM"))
           ELSE Write("embed_model",
                      Client("AzureOpenAIEmbedding",
                             [azure_endpoint |-> getenv(env, "AZURE_OPENAI_ENDPOINT"),
                              azure_deployment |-> getenv(env, "EMBEDDING_MODEL"),
                              azure_ad_token_provider |-> token_provider,
                              use_azure_ad |-> TRUE,
                              dimensions |-> dimensions.val]),
                      "chunk_size")
    /\ UNCHANGED << env, changes, model_provider, calls, pre, prev >>

\* init_anthropic: Settings.llm.
init_anthropic_llm ==
    /\ pc = "init_anthropic"
    /\ LET model == anthropic_model_map(getenv(env, "MODEL"))
       IN  IF ~model.ok
           THEN Raise(Exception("KeyError", "init_anthropic", "MODEL"))
           ELSE Write("llm", Client("Anthropic", [model |-> model.val]),
                      "init_anthropic_embed")
    /\ UNCHANGED << env, changes, model_provider, calls, pre, prev >>

\* init_anthropic: Settings.embed_model.
init_anthropic_embed ==
    /\ pc = "init_anthropic_embed"
    /\ LET model_name == anthropic_embed_model_map(getenv(env, "EMBEDDING_MODEL"))
       IN  IF ~model_name.ok
           THEN Raise(Exception("KeyError", "init_anthropic", "EMBEDDING_MODEL"))
           ELSE Write("embed_model",
                      Client("HuggingFaceEmbedding", [model_name |-> model_name.val]),
                      "chunk_size")
    /\ UNCHANGED << env, changes, model_provider, calls, pre, prev >>

\* init_gemini: Settings.llm.
init_gemini_llm ==
    /\ pc = "init_gemini"
    /\ LET model == gemini_model_map(getenv(env, "MODEL"))
       IN  IF ~model.ok
           THEN Raise(Exception("KeyError", "init_gemini", "MODEL"))
           ELSE Write("llm", Client("Gemini", [model |-> model.val]),
                      "init_gemini_embed")
    /\ UNCHANGED << env, changes, model_provider, calls, pre, prev >>

\* init_gemini: Settings.embed_model.
init_gemini_embed ==
    /\ pc = "init_gemini_embed"
    /\ LET model_name == gemini_embed_model_map(getenv(env, "EMBEDDING_MODEL"))
       IN  IF ~model_name.ok
           THEN Raise(Exception("KeyError", "init_gemini", "EMBEDDING_MODEL"))
           ELSE Write("embed_model",
                      Client("GeminiEmbedding", [model_name |-> model_name.val]),
                      "chunk_size")
    /\ UNCHANGED << env, changes, model_provider, calls, pre, prev >>

\* Mutant: chunk_size is read from CHUNK_OVERLAP's key and default.
set_chunk_size_from_overlap ==
    /\ pc = "chunk_size"
    /\ LET chunk_size == PyInt(getenv_default(env, "CHUNK_OVERLAP", Str("20")))
       IN  IF ~chunk_size.ok
           THEN Raise(Exception("ValueError", "init_settings", "CHUNK_OVERLAP"))
           ELSE Write("chunk_size", chunk_size.val, "chunk_overlap")
    /\ UNCHANGED << env, changes, model_provider, calls, pre, prev >>

\* init_settings: Settings.chunk_size = int(os.getenv("CHUNK_SIZE", "1024"))
set_chunk_size ==
    /\ pc = "chunk_size"
    /\ LET chunk_size == PyInt(getenv_default(env, "CHUNK_SIZE", Str("1024")))
       IN  IF ~chunk_size.ok
           THEN Raise(Exception("ValueError", "init_settings", "CHUNK_SIZE"))
           ELSE Write("chunk_size", chunk_size.val, "chunk_overlap")
    /\ UNCHANGED << env, changes, model_provider, calls, pre, prev >>

\* init_settings: Settings.chunk_overlap = int(os.getenv("CHUNK_OVERLAP", "20")),
\* and the call returns.
set_chunk_overlap ==
    /\ pc = "chunk_overlap"
    /\ LET chunk_overlap == PyInt(getenv_default(env, "CHUNK_OVERLAP", Str("20")))
       IN  IF ~chunk_overlap.ok
           THEN Raise(Exception("ValueError", "init_settings", "CHUNK_OVERLAP"))
           ELSE Write("chunk_overlap", chunk_overlap.val, "done")
    /\ UNCHANGED << env, changes, model_provider, calls, pre, prev >>

Next ==
    \/ \E k \in Keys : \E v \in Values(k) : putenv(k, v)
    \/ \E k \in Keys : unsetenv(k)
    \/ init_settings
    \/ init_ollama_embed
    \/ init_ollama_llm
    \/ init_openai_llm
    \/ init_openai_embed
    \/ init_azure_openai_llm
    \/ init_azure_openai_embed
    \/ init_anthropic_llm
    \/ init_anthropic_embed
    \/ init_gemini_llm
    \/ init_gemini_embed
    \/ set_chunk_size
    \/ set_chunk_overlap

Spec == Init /\ [][Next]_vars

\* ============================================================== properties
ValidProvider(p) ==
    \/ p = Str("openai") \/ p = Str("ollama") \/ p = Str("anthropic")
    \/ p = Str("gemini") \/ p = Str("azure-openai")

\* A call has been made and os.environ is still as that call read it.
InCall == pc # "idle"
Returned == pc = "done"
Raised == pc = "raised"

IntKeys == { "CHUNK_SIZE", "CHUNK_OVERLAP", "LLM_MAX_TOKENS", "EMBEDDING_DIM" }
FloatKeys == { "LLM_TEMPERATURE", "OLLAMA_REQUEST_TIMEOUT" }
NumericKeys == IntKeys \cup FloatKeys

\* Key k is present in e with a value its conversion rejects.
Unparsable(e, k) ==
    /\ e[k] # None
    /\ IF k \in IntKeys THEN ~PyInt(e[k]).ok ELSE ~PyFloat(e[k]).ok

\* The numeric keys a call with provider p reads.
NumericKeysRead(p) ==
    { "CHUNK_SIZE", "CHUNK_OVERLAP" } \cup
    ( IF p = Str("openai") \/ p = Str("azure-openai")
      THEN { "LLM_TEMPERATURE", "LLM_MAX_TOKENS", "EMBEDDING_DIM" }
      ELSE IF p = Str("ollama") THEN { "OLLAMA_REQUEST_TIMEOUT" } ELSE {} )

\* For anthropic and gemini, MODEL and EMBEDDING_MODEL are keys of the maps.
ModelsKnown(e) ==
    /\ e["MODEL_PROVIDER"] = Str("anthropic") =>
          /\ anthropic_model_map(e["MODEL"]).ok
          /\ anthropic_embed_model_map(e["EMBEDDING_MODEL"]).ok
    /\ e["MODEL_PROVIDER"] = Str("gemini") =>
          /\ gemini_model_map(e["MODEL"]).ok
          /\ gemini_embed_model_map(e["EMBEDDING_MODEL"]).ok

AllFour == { "llm", "embed_model", "chunk_size", "chunk_overlap" }
Range(f) == { f[i] : i \in DOMAIN f }

\* C1: a call whose MODEL_PROVIDER is none of the five tags (unset included)
\* ends by raising the invalid-provider error of init_settings, and never
\* enters an initializer or returns.
C1_UnknownProviderRaises ==
    (InCall /\ ~ValidProvider(env["MODEL_PROVIDER"])) =>
        /\ Raised
        /\ exc = Exception("ValueError", "init_settings", "MODEL_PROVIDER")

C1_Witness ==
    /\ Raised
    /\ env["MODEL_PROVIDER"] = Str("mistral")
    /\ exc.about = "MODEL_PROVIDER"

\* C2 as stated: with a valid provider and every present numeric variable
\* parseable, a call that has ended has returned with both clients set.
C2_AsStated ==
    ( /\ Returned \/ Raised
      /\ ValidProvider(env["MODEL_PROVIDER"])
      /\ \A k \in NumericKeys : ~Unparsable(env, k) ) =>
        /\ Returned
        /\ Settings.llm # None
        /\ Settings.embed_model # None

\* C2 amended: the same, provided that for anthropic and gemini MODEL and
\* EMBEDDING_MODEL are keys of the provider's maps: the call never raises,
\* and when it has returned both clients are set.
C2_ValidProviderSucceeds ==
    ( /\ InCall
      /\ ValidProvider(env["MODEL_PROVIDER"])
      /\ \A k \in NumericKeys : ~Unparsable(env, k)
      /\ ModelsKnown(env) ) =>
        /\ ~Raised
        /\ Returned => /\ Settings.llm # None
                       /\ Settings.embed_model # None
                       /\ { "llm", "embed_model" } \subseteq Range(written)

C2_Witness ==
    /\ Returned
    /\ env["MODEL_PROVIDER"] = Str("gemini")
    /\ Settings.llm # None
    /\ Settings.embed_model # None

\* C3: a call that raised has written no field of Settings: Settings is
\* what the call found.
C3_NoPartialInitialization ==
    Raised => (written = << >> /\ Settings = pre)

\* C4: after a call returned, chunk_size is the integer of CHUNK_SIZE, 1024
\* when it is unset, and chunk_overlap the integer of CHUNK_OVERLAP, 20 when
\* it is unset; with either present and not an integer the call never
\* returns, it raises ValueError.
C4_ChunkParameters ==
    /\ Returned =>
        /\ env["CHUNK_SIZE"] = None => Settings.chunk_size = IntV(1024)
        /\ env["CHUNK_SIZE"] = Str("512") => Settings.chunk_size = IntV(512)
        /\ env["CHUNK_SIZE"] # None =>
              Settings.chunk_size = PyInt(env["CHUNK_SIZE"]).val
        /\ env["CHUNK_OVERLAP"] = None => Settings.chunk_overlap = IntV(20)
        /\ env["CHUNK_OVERLAP"] = Str("50") => Settings.chunk_overlap = IntV(50)
        /\ env["CHUNK_OVERLAP"] # None =>
              Settings.chunk_overlap = PyInt(env["CHUNK_OVERLAP"]).val
    /\ (InCall /\ (Unparsable(env, "CHUNK_SIZE") \/ Unparsable(env, "CHUNK_OVERLAP")))
          => ~Returned
    /\ (Raised /\ exc.about \in { "CHUNK_SIZE", "CHUNK_OVERLAP" })
          => (exc.type = "ValueError" /\ Unparsable(env, exc.about))

C4_Witness ==
    /\ Returned
    /\ env["CHUNK_SIZE"] = Str("512")
    /\ env["CHUNK_OVERLAP"] = None
    /\ Settings.chunk_size = IntV(512)
    /\ Settings.chunk_overlap = IntV(20)

\* C5: for anthropic and gemini, after a call returned the two clients were
\* built with the identifiers the provider's maps give MODEL and
\* EMBEDDING_MODEL (anthropic claude-3-haiku: claude-3-haiku-20240307); with
\* MODEL or EMBEDDING_MODEL no key of its map, unset included, the call
\* never gets past the initializer: it raises KeyError.
C5_ModelNameMaps ==
    /\ (Returned /\ env["MODEL_PROVIDER"] = Str("anthropic")) =>
        /\ Settings.llm =
              Client("Anthropic", [model |-> anthropic_model_map(env["MODEL"]).val])
        /\ Settings.embed_model =
              Client("HuggingFaceEmbedding",
                     [model_name |-> anthropic_embed_model_map(env["EMBEDDING_MODEL"]).val])
        /\ env["MODEL"] = Str("claude-3-haiku") =>
              Settings.llm.kwargs.model = Str("claude-3-haiku-20240307")
        /\ env["EMBEDDING_MODEL"] = Str("all-MiniLM-L6-v2") =>
              Settings.embed_model.kwargs.model_name =
                  Str("sentence-transformers/all-MiniLM-L6-v2")
    /\ (Returned /\ env["MODEL_PROVIDER"] = Str("gemini")) =>
        /\ Settings.llm =
              Client("Gemini", [model |-> gemini_model_map(env["MODEL"]).val])
        /\ Settings.embed_model =
              Client("GeminiEmbedding",
                     [model_name |-> gemini_embed_model_map(env["EMBEDDING_MODEL"]).val])
        /\ env["MODEL"] = Str("gemini-pro") =>
              Settings.llm.kwargs.model = Str("models/gemini-pro")
        /\ env["EMBEDDING_MODEL"] = Str("embedding-001") =>
              Settings.embed_model.kwargs.model_name = Str("models/embedding-001")
    /\ ( /\ InCall
         /\ env["MODEL_PROVIDER"] = Str("anthropic") \/ env["MODEL_PROVIDER"] = Str("gemini")
         /\ ~ModelsKnown(env) ) =>
        /\ pc \notin { "chunk_size", "chunk_overlap", "done" }
        /\ Raised => exc.type = "KeyError"

C5_Witness ==
    /\ Returned
    /\ env["MODEL_PROVIDER"] = Str("anthropic")
    /\ env["MODEL"] = Str("claude-3-haiku")
    /\ Settings.llm.kwargs.model = Str("claude-3-haiku-20240307")

\* C6 as stated: a numeric key present with a value its conversion rejects
\* makes the call fail, whichever key of the six it is.
C6_AsStated ==
    (InCall /\ \E k \in NumericKeys : Unparsable(env, k)) => ~Returned

\* C6 amended: for openai and azure-openai, LLM_MAX_TOKENS and EMBEDDING_DIM
\* unset give the client max_tokens / dimensions None, and set to an integer
\* give that integer (EMBEDDING_DIM 1536: 1536); a numeric key that the
\* call reads (CHUNK_SIZE and CHUNK_OVERLAP always; LLM_TEMPERATURE,
\* LLM_MAX_TOKENS and EMBEDDING_DIM for openai and azure-openai;
\* OLLAMA_REQUEST_TIMEOUT for ollama) present with an unparsable value makes
\* the call raise ValueError, and no numeric key raises when it is unset.
C6_OptionalNumericFields ==
    /\ ( /\ Returned
         /\ env["MODEL_PROVIDER"] = Str("openai") \/ env["MODEL_PROVIDER"] = Str("azure-openai") ) =>
        /\ env["LLM_MAX_TOKENS"] = None => Settings.llm.kwargs.max_tokens = None
        /\ env["LLM_MAX_TOKENS"] = Str("256") => Settings.llm.kwargs.max_tokens = IntV(256)
        /\ env["EMBEDDING_DIM"] = None => Settings.embed_model.kwargs.dimensions = None
        /\ env["EMBEDDING_DIM"] = Str("1536") =>
              Settings.embed_model.kwargs.dimensions = IntV(1536)
    /\ ( /\ InCall
         /\ \E k \in NumericKeysRead(env["MODEL_PROVIDER"]) : Unparsable(env, k) ) =>
        ~Returned
    /\ (Raised /\ exc.about \in NumericKeys) =>
        /\ exc.type = "ValueError"
        /\ exc.about \in NumericKeysRead(env["MODEL_PROVIDER"])
        /\ Unparsable(env, exc.about)

C6_Witness ==
    /\ Returned
    /\ env["MODEL_PROVIDER"] = Str("openai")
    /\ env["LLM_MAX_TOKENS"] = None
    /\ env["EMBEDDING_DIM"] = Str("1536")
    /\ Settings.llm.kwargs.max_tokens = None
    /\ Settings.embed_model.kwargs.dimensions = IntV(1536)

\* What a call that returns leaves in Settings, from the environment alone.
ExpectedBaseUrl(e) ==
    IF e["OLLAMA_BASE_URL"] = None \/ e["OLLAMA_BASE_URL"] = Str("")
    THEN Str("http://127.0.0.1:11434") ELSE e["OLLAMA_BASE_URL"]

ExpectedFloat(e, k, default) == IF e[k] = None THEN default ELSE PyFloat(e[k]).val
ExpectedOptionalInt(e, k) == IF e[k] = None THEN None ELSE PyInt(e[k]).val
ExpectedInt(e, k, default) == IF e[k] = None THEN IntV(default) ELSE PyInt(e[k]).val

ExpectedLlm(e) ==
    LET p == e["MODEL_PROVIDER"] IN
    CASE p = Str("openai") ->
            Client("OpenAI",
                   [model |-> e["MODEL"],
                    temperature |-> ExpectedFloat(e, "LLM_TEMPERATURE", DEFAULT_TEMPERATURE),
                    max_tokens |-> ExpectedOptionalInt(e, "LLM_MAX_TOKENS")])
      [] p = Str("ollama") ->
            Client("Ollama",
                   [base_url |-> ExpectedBaseUrl(e),
                    model |-> e["MODEL"],
                    request_timeout |->
                        ExpectedFloat(e, "OLLAMA_REQUEST_TIMEOUT", DEFAULT_REQUEST_TIMEOUT)])
      [] p = Str("anthropic") ->
            Client("Anthropic", [model |-> anthropic_model_map(e["MODEL"]).val])
      [] p = Str("gemini") ->
            Client("Gemini", [model |-> gemini_model_map(e["MODEL"]).val])
      [] p = Str("azure-openai") ->
            Client("AzureOpenAI",
                   [engine |-> e["AZURE_DEPLOYMENT_NAME"],
                    azure_endpoint |-> e["AZURE_OPENAI_ENDPOINT"],
                    azure_ad_token_provider |-> token_provider,
                    use_azure_ad |-> TRUE,
                    temperature |-> ExpectedFloat(e, "LLM_TEMPERATURE", DEFAULT_TEMPERATURE),
                    max_tokens |-> ExpectedOptionalInt(e, "LLM_MAX_TOKENS")])

ExpectedEmbed(e) ==
    LET p == e["MODEL_PROVIDER"] IN
    CASE p = Str("openai") ->
            Client("OpenAIEmbedding",
                   [model |-> e["EMBEDDING_MODEL"],
                    dimensions |-> ExpectedOptionalInt(e, "EMBEDDING_DIM")])
      [] p = Str("ollama") ->
            Client("OllamaEmbedding",
                   [base_url |-> ExpectedBaseUrl(e),
                    model_name |-> e["EMBEDDING_MODEL"]])
      [] p = Str("anthropic") ->
            Client("HuggingFaceEmbedding",
                   [model_name |-> anthropic_embed_model_map(e["EMBEDDING_MODEL"]).val])
      [] p = Str("gemini") ->
            Client("GeminiEmbedding",
                   [model_name |-> gemini_embed_model_map(e["EMBEDDING_MODEL"]).val])
      [] p = Str("azure-openai") ->
            Client("AzureOpenAIEmbedding",
                   [azure_endpoint |-> e["AZURE_OPENAI_ENDPOINT"],
                    azure_deployment |-> e["EMBEDDING_MODEL"],
                    azure_ad_token_provider |-> token_provider,
                    use_azure_ad |-> TRUE,
                    dimensions |-> ExpectedOptionalInt(e, "EMBEDDING_DIM")])

ExpectedSettings(e) ==
    [llm |-> ExpectedLlm(e),
     embed_model |-> ExpectedEmbed(e),
     chunk_size |-> ExpectedInt(e, "CHUNK_SIZE", 1024),
     chunk_overlap |-> ExpectedInt(e, "CHUNK_OVERLAP", 20)]

\* C7: when a call returns after an earlier call returned under another
\* provider, every field of Settings was written by the later call and is
\* what that call computes from its own environment.
C7_LastWriteWins ==
    ( /\ Returned
      /\ prev.returned
      /\ prev.provider # model_provider ) =>
        /\ Range(written) = AllFour
        /\ Settings = ExpectedSettings(env)

C7_Witness ==
    /\ Returned
    /\ prev.returned
    /\ prev.provider = Str("anthropic")
    /\ model_provider = Str("ollama")
    /\ pre.llm.cls = "Anthropic"
    /\ Settings.llm.cls = "Ollama"
    /\ Settings.embed_model.cls = "OllamaEmbedding"

\* C8: in a call, chunk_size is written only after both clients were
\* written and chunk_overlap only after chunk_size; a call that raised at
\* the match statement or inside an initializer left chunk_size and
\* chunk_overlap as it found them.
C8_ChunkWritesComeLast ==
    /\ \A i \in DOMAIN written :
        /\ written[i] = "chunk_size" =>
              { "llm", "embed_model" } \subseteq { written[j] : j \in 1..(i - 1) }
        /\ written[i] = "chunk_overlap" =>
              "chunk_size" \in { written[j] : j \in 1..(i - 1) }
    /\ (pc \in { "chunk_overlap", "done" }) => "chunk_size" \in Range(written)
    /\ (Raised /\ exc.about \notin { "CHUNK_SIZE", "CHUNK_OVERLAP" }) =>
        /\ Settings.chunk_size = pre.chunk_size
        /\ Settings.chunk_overlap = pre.chunk_overlap
        /\ Range(written) \cap { "chunk_size", "chunk_overlap" } = {}

C8_Witness ==
    /\ Raised
    /\ exc.raised_in = "init_anthropic"
    /\ pre.chunk_size = IntV(1024)
    /\ env["CHUNK_SIZE"] = Str("512")
    /\ Settings.chunk_size = IntV(1024)

\* C9 as stated: for ollama both clients get the same base URL, the value
\* of OLLAMA_BASE_URL when it is set and http://127.0.0.1:11434 when it is
\* unset.
C9_AsStated ==
    (Returned /\ env["MODEL_PROVIDER"] = Str("ollama")) =>
        /\ Settings.llm.kwargs.base_url = Settings.embed_model.kwargs.base_url
        /\ Settings.llm.kwargs.base_url =
              IF env["OLLAMA_BASE_URL"] # None
              THEN env["OLLAMA_BASE_URL"] ELSE Str("http://127.0.0.1:11434")

\* C9 amended: for ollama both clients get the same base URL, the value of
\* OLLAMA_BASE_URL when it is set and not empty and http://127.0.0.1:11434
\* when it is unset or empty; the generation client gets MODEL and the
\* float of OLLAMA_REQUEST_TIMEOUT (DEFAULT_REQUEST_TIMEOUT when unset), the
\* embedding client gets EMBEDDING_MODEL.
C9_OllamaClients ==
    (Returned /\ env["MODEL_PROVIDER"] = Str("ollama")) =>
        /\ Settings.llm.cls = "Ollama"
        /\ Settings.embed_model.cls = "OllamaEmbedding"
        /\ Settings.llm.kwargs.base_url = Settings.embed_model.kwargs.base_url
        /\ Settings.llm.kwargs.base_url =
              IF env["OLLAMA_BASE_URL"] # None /\ env["OLLAMA_BASE_URL"] # Str("")
              THEN env["OLLAMA_BASE_URL"] ELSE Str("http://127.0.0.1:11434")
        /\ Settings.llm.kwargs.model = env["MODEL"]
        /\ Settings.embed_model.kwargs.model_name = env["EMBEDDING_MODEL"]
        /\ env["OLLAMA_REQUEST_TIMEOUT"] = None =>
              Settings.llm.kwargs.request_timeout = DEFAULT_REQUEST_TIMEOUT
        /\ env["OLLAMA_REQUEST_TIMEOUT"] = Str("60") =>
              Settings.llm.kwargs.request_timeout = FloatV(60, 0)

C9_Witness ==
    /\ Returned
    /\ env["MODEL_PROVIDER"] = Str("ollama")
    /\ env["OLLAMA_BASE_URL"] = Str("")
    /\ env["OLLAMA_REQUEST_TIMEOUT"] = None
    /\ Settings.llm.kwargs.request_timeout = DEFAULT_REQUEST_TIMEOUT
    /\ Settings.llm.kwargs.base_url = Str("http://127.0.0.1:11434")
    /\ Settings.embed_model.kwargs.base_url = Str("http://127.0.0.1:11434")

\* C10: a call whose MODEL_PROVIDER is none of the five tags wrote no field
\* of Settings: the four fields are what the call found, whatever earlier
\* calls left there.
C10_UnknownProviderWritesNothing ==
    (InCall /\ ~ValidProvider(env["MODEL_PROVIDER"])) =>
        /\ written = << >>
        /\ Settings = pre
        /\ pc \notin { "init_openai", "init_openai_embed", "init_ollama",
                       "init_ollama_llm", "init_anthropic", "init_anthropic_embed",
                       "init_gemini", "init_gemini_embed", "init_azure_openai",
                       "init_azure_openai_embed" }

C10_Witness ==
    /\ Raised
    /\ env["MODEL_PROVIDER"] = None
    /\ prev.returned
    /\ pre.llm # None
    /\ pre.chunk_overlap = IntV(20)
    /\ Settings = pre

====
